---- MODULE Spec2Model ----
(***************************************************************************)
(* Model of gitui's asynchronous commit filter                             *)
(* (src/components/utils/async_commit_filter.rs): the caller (UI) thread   *)
(* issuing start_filter / stop_filter / is_pending / get_filter_items, and *)
(* one rayon worker per start_filter call, each worker modelled statement  *)
(* by statement at the granularity of its accesses to shared state.        *)
(*                                                                         *)
(* Further specifications draw inputs for the pure functions: SpecPage    *)
(* (get_filter_items), SpecQuery and SpecCompile (the query compiler of    *)
(* src/tabs/revlog.rs: pre_process_string, get_what_to_filter_by) and      *)
(* SpecEval (AsyncCommitFilterer::filter).                                 *)
(*                                                                         *)
(* Strings are sequences of one-character strings.                         *)
(***************************************************************************)
EXTENDS Integers, Sequences, FiniteSets, TLC

\* ------------------------------------------------------------------ bounds
\* number of start_filter calls explored (one generation per call)
MaxGen == 2
\* number of start_filter calls explored by SpecDeep
MaxGenDeep == 3
\* the worker's cursor is explored up to this value
MaxIndex == 4
\* longest accumulator drawn for the pagination specification
MaxAcc == 2
\* largest message_length_limit drawn for the pagination specification
MaxLimit == 4
\* longest query string of the bracket family, in tokens
MaxTokens == 6
\* most alternatives of a bracket group of the distribution family
MaxAlts == 2
\* most flag letters typed after `:`
MaxFlags == 3
\* most pieces of a bracket-free query
MaxPieces == 3
\* most terms of a compiled query evaluated
MaxQueryTerms == 3
\* longest batch of commits evaluated
MaxCommits == 2
\* bytes of memory a String can take before the allocation fails
StrCap == 40
\* number of remote_callbacks calls (pushes and fetches) explored
MaxCallbacks == 2
\* invocations of one credentials closure explored
MaxCalls == 3

\* ------------------------------------------------------ program constants
\* SLICE_SIZE (1200 in the source), scaled to the size of the modelled log
SLICE_SIZE == 2
\* usize is modelled as a WordBits-bit unsigned integer
WordBits == 3
WordMod == 2 ^ WordBits

\* FilterBy bitflags, a set of flag names standing for the bit set
SHA == "SHA"
AUTHOR == "AUTHOR"
MESSAGE == "MESSAGE"

\* FilterStatus
Filtering == "Filtering"
Finished == "Finished"

None == 0

Min(a, b) == IF a < b THEN a ELSE b

\* ------------------------------------------------------------ the commits
\* CommitInfo records of the repository under search, in log order
Commit1 == [id |-> <<"1", "a">>, author |-> <<"A", "l">>, message |-> <<"f", "i", "x">>]
Commit2 == [id |-> <<"2", "b">>, author |-> <<"B", "o">>, message |-> <<"a", "d", "d">>]
Commit3 == [id |-> <<"3", "c">>, author |-> <<"A", "l">>, message |-> <<"F", "I", "X">>]

LogFull == <<Commit1, Commit2, Commit3>>

\* compiled queries (Vec<Vec<(String, FilterBy)>>) the caller may start
QueryAl == << << << <<"a", "l">>, {AUTHOR} >> >> >>
QueryBo == << << << <<"b", "o">>, {AUTHOR, MESSAGE} >> >> >>

Queries == {QueryAl, QueryBo}

\* --------------------------------------------------------- pure functions
\* char::to_lowercase on the alphabet of the modelled commits
LowerChar(ch) ==
    CASE ch = "A" -> "a"
      [] ch = "B" -> "b"
      [] ch = "F" -> "f"
      [] ch = "I" -> "i"
      [] ch = "X" -> "x"
      [] OTHER -> ch

\* str::to_lowercase
to_lowercase(s) == [i \in 1..Len(s) |-> LowerChar(s[i])]

\* str::contains: needle occurs as a contiguous substring of hay
contains(hay, needle) ==
    \E i \in 0..(Len(hay) - Len(needle)) :
        SubSeq(hay, i + 1, i + Len(needle)) = needle

\* the boolean b computed for one (s, filter) pair of a conjunction
TermMatches(commit, term) ==
    LET s == term[1]
        filter == term[2]
    IN  \/ /\ SHA \in filter
           /\ contains(to_lowercase(commit.id), to_lowercase(s))
        \/ /\ AUTHOR \in filter
           /\ contains(to_lowercase(commit.author), to_lowercase(s))
        \/ /\ MESSAGE \in filter
           /\ contains(to_lowercase(commit.message), to_lowercase(s))

\* a closure that wants every to_and to hold a matching term
CommitMatches_EveryConjunction(commit, filter_strings) ==
    \A i \in 1..Len(filter_strings) :
        \E j \in 1..Len(filter_strings[i]) :
            TermMatches(commit, filter_strings[i][j])

\* the closure passed to Iterator::filter: some to_and has is_and true
CommitMatches(commit, filter_strings) ==
    \E i \in 1..Len(filter_strings) :
        \A j \in 1..Len(filter_strings[i]) :
            TermMatches(commit, filter_strings[i][j])

\* AsyncCommitFilterer::filter
filter(vec_commit_info, filter_strings) ==
    LET Keep(c) == CommitMatches(c, filter_strings)
    IN  SelectSeq(vec_commit_info, Keep)


\* ------------------------------------------------------------------ state
Gens == 1..(IF MaxGen < MaxGenDeep THEN MaxGenDeep ELSE MaxGen)
Mutexes == {0} \cup Gens

VARIABLES
    filtered_commits,     \* Arc<Mutex<Vec<CommitInfo>>>: the accumulator; each
                          \* entry also records the generation that appended it
    filter_strings,       \* self.filter_strings: the query last started
    filter_count,         \* Arc<AtomicUsize>
    filter_finished,      \* Arc<AtomicBool>
    is_pending_local,     \* RefCell<bool>
    filter_thread_sender, \* Option<Sender<bool>>: generation owning the channel
    filter_thread_mutex,  \* the mutex self.filter_thread_mutex points to
    holder,               \* holder[m]: generation holding completion mutex m
    chan,                 \* chan[g]: cancellation channel of generation g
    pc,                   \* pc[g]: position of generation g's worker
    cur_index,            \* cur_index[g]: the worker's cursor
    v,                    \* v[g]: the worker's current batch (v, then filtered)
    fstrings,             \* fstrings[g]: filter_strings moved into the closure
    log_n,                \* AsyncLog: number of commits populated so far
    log_pending,          \* AsyncLog::is_pending()
    ui_pc,                \* position of the caller thread
    ui_arg,               \* argument of the start_filter call in progress
    stops_in_row,         \* history: stop_filter calls returned since the last
                          \* start_filter call (counted up to 2)
    page,                 \* result of the last get_filter_items call
    q_shape,              \* history: how the query string typed was built
    q_in,                 \* filter_by: the query string handed to Revlog::filter
    q_s,                  \* the local `s` of pre_process_string
    q_pc,                 \* position inside Revlog::filter
    q_out,                \* filter_strings handed to start_filter
    is_filtering,         \* Revlog::is_filtering
    e_commits,            \* vec_commit_info handed to AsyncCommitFilterer::filter
    e_strings,            \* filter_strings handed to AsyncCommitFilterer::filter
    e_result,             \* the call's outcome
    basic_credential,     \* captured by the credentials closure
    first_call_to_credentials, \* captured by the credentials closure
    cb_built,             \* history: number of remote_callbacks calls
    cb_calls,             \* history: invocations of the current closure
    cb_supplied,          \* history: credentials it has returned
    cb_last               \* history: its last invocation

vars == <<filtered_commits, filter_strings, filter_count, filter_finished, is_pending_local,
          filter_thread_sender, filter_thread_mutex, holder, chan, pc,
          cur_index, v, fstrings, log_n, log_pending, ui_pc, ui_arg,
          stops_in_row, page, q_shape, q_in, q_s, q_pc, q_out, is_filtering,
          e_commits, e_strings, e_result, basic_credential,
          first_call_to_credentials, cb_built, cb_calls, cb_supplied, cb_last>>

\* state shared between the caller thread and the workers
shared_vars == <<filtered_commits, filter_count, filter_finished, holder, chan>>
\* state only the caller thread touches
caller_vars == <<filter_strings, is_pending_local, filter_thread_sender, filter_thread_mutex,
                 ui_pc, ui_arg, stops_in_row>>
\* state of the worker closures
worker_vars == <<pc, cur_index, v, fstrings>>
\* state of the log source
log_vars == <<log_n, log_pending>>
\* state of a Revlog::filter call
query_vars == <<q_shape, q_in, q_s, q_pc, q_out, is_filtering>>
\* state of an AsyncCommitFilterer::filter call
eval_vars == <<e_commits, e_strings, e_result>>
\* state of the callbacks object built by remote_callbacks
cred_vars == <<basic_credential, first_call_to_credentials, cb_built, cb_calls,
               cb_supplied, cb_last>>

\* no get_filter_items call made yet
NoPage == [called |-> FALSE, start |-> 0, amount |-> 0, limit |-> 0,
           ok |-> TRUE, items |-> <<>>]

\* no Revlog::filter call in progress
NoQuery ==
    /\ q_shape = <<>>
    /\ q_in = <<>>
    /\ q_s = <<>>
    /\ q_pc = "idle"
    /\ q_out = <<>>
    /\ is_filtering = FALSE

\* no AsyncCommitFilterer::filter call made
NoEval ==
    /\ e_commits = <<>>
    /\ e_strings = <<>>
    /\ e_result = [called |-> FALSE, items |-> <<>>]

\* no invocation of the credentials closure yet
NoCall == [called |-> FALSE, username_from_url |-> <<>>, allowed_types |-> {},
           result |-> [ok |-> FALSE, cred |-> <<>>, err |-> <<>>]]

\* no callbacks object built
NoCallbacks ==
    /\ basic_credential = <<>>
    /\ first_call_to_credentials = TRUE
    /\ cb_built = 0
    /\ cb_calls = 0
    /\ cb_supplied = 0
    /\ cb_last = NoCall

\* a channel whose receiver does not exist (not created yet, or dropped)
NoChan == [msg |-> FALSE, rx |-> FALSE]

\* AsyncCommitFilterer::new, before any worker exists
Init ==
    /\ filtered_commits = <<>>
    /\ filter_strings = <<>>
    /\ filter_count = 0
    /\ filter_finished = FALSE
    /\ is_pending_local = FALSE
    /\ filter_thread_sender = None
    /\ filter_thread_mutex = 0
    /\ holder = [m \in Mutexes |-> None]
    /\ chan = [g \in Gens |-> NoChan]
    /\ pc = [g \in Gens |-> "none"]
    /\ cur_index = [g \in Gens |-> 0]
    /\ v = [g \in Gens |-> <<>>]
    /\ fstrings = [g \in Gens |-> <<>>]
    /\ log_n = 0
    /\ log_pending = TRUE
    /\ ui_pc = "idle"
    /\ ui_arg = <<>>
    /\ stops_in_row = 0
    /\ page = NoPage
    /\ NoQuery
    /\ NoEval
    /\ NoCallbacks

\* ------------------------------------------------------- read accessors
\* AsyncCommitFilterer::fetch
fetch == IF filter_finished THEN Finished ELSE Filtering

\* AsyncCommitFilterer::count
count == filter_count

\* value returned by AsyncCommitFilterer::is_pending in the current state
is_pending_result == is_pending_local /\ fetch = Filtering

\* --------------------------------------------------------- the log source
\* AsyncLog::get_slice(start, amount): ids (positions in the log) populated
\* so far in [start, start + amount)
get_slice(start, amount) ==
    [i \in 1..(Min(start + amount, log_n) - Min(start, log_n)) |-> start + i]

\* sync::get_commits_info: the CommitInfo of each id
get_commits_info(ids) == [i \in 1..Len(ids) |-> LogFull[ids[i]]]

\* the log source reads one more commit of the repository
LogPush ==
    /\ log_pending
    /\ log_n < Len(LogFull)
    /\ log_n' = log_n + 1
    /\ UNCHANGED <<shared_vars, caller_vars, worker_vars, log_pending, page,
                   query_vars, eval_vars, cred_vars>>

\* the log source has read the whole history
LogFinish ==
    /\ log_pending
    /\ log_pending' = FALSE
    /\ UNCHANGED <<shared_vars, caller_vars, worker_vars, log_n, page,
                   query_vars, eval_vars, cred_vars>>


\* ------------------------------------------------------ the caller thread
\* stop_filter, `sender.try_send(true)` and `is_pending_local.replace(false)`:
\* the message is queued when a sender exists and its receiver still does
SendCancel ==
    /\ chan' = IF filter_thread_sender # None /\ chan[filter_thread_sender].rx
               THEN [chan EXCEPT ![filter_thread_sender].msg = TRUE]
               ELSE chan
    /\ is_pending_local' = FALSE

\* start_filter(q) is called: its stop_filter() sends the cancellation
StartFilterSendUpTo(q, limit) ==
    /\ ui_pc = "idle"
    /\ filter_thread_mutex < limit
    /\ SendCancel
    /\ ui_pc' = "sf_finished"
    /\ ui_arg' = q
    /\ stops_in_row' = 0
    /\ UNCHANGED <<filtered_commits, filter_count, filter_finished, holder,
                   filter_strings, filter_thread_sender, filter_thread_mutex,
                   worker_vars, log_vars, page, query_vars, eval_vars, cred_vars>>

StartFilterSend(q) == StartFilterSendUpTo(q, MaxGen)

\* the same call where one more generation is explored
StartFilterSendDeep(q) == StartFilterSendUpTo(q, MaxGenDeep)

\* start_filter: its stop_filter() stores filter_finished = true
StartFilterFinished ==
    /\ ui_pc = "sf_finished"
    /\ filter_finished' = TRUE
    /\ ui_pc' = "sf_clear"
    /\ UNCHANGED <<filtered_commits, filter_count, holder, chan,
                   filter_strings, is_pending_local, filter_thread_sender,
                   filter_thread_mutex, ui_arg, stops_in_row, worker_vars,
                   log_vars, page, query_vars, eval_vars, cred_vars>>

\* start_filter: self.clear(); self.filter_strings = filter_strings.clone()
StartFilterClear ==
    /\ ui_pc = "sf_clear"
    /\ filtered_commits' = <<>>
    /\ filter_strings' = ui_arg
    /\ ui_pc' = "sf_count"
    /\ UNCHANGED <<filter_count, filter_finished, holder, chan,
                   is_pending_local, filter_thread_sender,
                   filter_thread_mutex, ui_arg, stops_in_row, worker_vars,
                   log_vars, page, query_vars, eval_vars, cred_vars>>

\* start_filter: self.filter_count.store(0)
StartFilterCount ==
    /\ ui_pc = "sf_count"
    /\ filter_count' = 0
    /\ ui_pc' = "sf_spawn"
    /\ UNCHANGED <<filtered_commits, filter_finished, holder, chan,
                   filter_strings, is_pending_local, filter_thread_sender,
                   filter_thread_mutex, ui_arg, stops_in_row, worker_vars,
                   log_vars, page, query_vars, eval_vars, cred_vars>>

\* StartFilterSpawn as it would be if start_filter joined the previous
\* generation: it first waits for the previous generation's guard
StartFilterSpawnJoin ==
    /\ ui_pc = "sf_spawn"
    /\ holder[filter_thread_mutex] = None
    /\ LET g == filter_thread_mutex + 1
       IN  /\ chan' = [chan EXCEPT ![g] = [msg |-> FALSE, rx |-> TRUE]]
           /\ filter_thread_sender' = g
           /\ filter_thread_mutex' = g
           /\ pc' = [pc EXCEPT ![g] = "spawned"]
           /\ fstrings' = [fstrings EXCEPT ![g] = ui_arg]
    /\ is_pending_local' = TRUE
    /\ ui_pc' = "idle"
    /\ ui_arg' = <<>>
    /\ UNCHANGED <<filtered_commits, filter_count, filter_finished, holder,
                   filter_strings, stops_in_row, cur_index, v, log_vars, page,
                   query_vars, eval_vars, cred_vars>>

\* start_filter: new channel and mutex, is_pending_local = true, spawn; the
\* call returns.  None of the steps of start_filter waits for a mutex a
\* worker holds.
StartFilterSpawn ==
    /\ ui_pc = "sf_spawn"
    /\ LET g == filter_thread_mutex + 1
       IN  /\ chan' = [chan EXCEPT ![g] = [msg |-> FALSE, rx |-> TRUE]]
           /\ filter_thread_sender' = g
           /\ filter_thread_mutex' = g
           /\ pc' = [pc EXCEPT ![g] = "spawned"]
           /\ fstrings' = [fstrings EXCEPT ![g] = ui_arg]
    /\ is_pending_local' = TRUE
    /\ ui_pc' = "idle"
    /\ ui_arg' = <<>>
    /\ UNCHANGED <<filtered_commits, filter_count, filter_finished, holder,
                   filter_strings, stops_in_row, cur_index, v, log_vars, page,
                   query_vars, eval_vars, cred_vars>>

\* stop_filter() is called on its own: the cancellation is sent
StopFilterSend ==
    /\ ui_pc = "idle"
    /\ SendCancel
    /\ ui_pc' = "stop_finished"
    /\ UNCHANGED <<filtered_commits, filter_count, filter_finished, holder,
                   filter_strings, filter_thread_sender, filter_thread_mutex,
                   ui_arg, stops_in_row, worker_vars, log_vars, page,
                   query_vars, eval_vars, cred_vars>>

\* stop_filter: filter_finished.store(true); the call returns
StopFilterFinished ==
    /\ ui_pc = "stop_finished"
    /\ filter_finished' = TRUE
    /\ ui_pc' = "idle"
    /\ stops_in_row' = Min(stops_in_row + 1, 2)
    /\ UNCHANGED <<filtered_commits, filter_count, holder, chan,
                   filter_strings, is_pending_local, filter_thread_sender,
                   filter_thread_mutex, ui_arg, worker_vars, log_vars, page,
                   query_vars, eval_vars, cred_vars>>

\* is_pending(): returns is_pending_result and stores it in is_pending_local
IsPending ==
    /\ ui_pc = "idle"
    /\ is_pending_local' = is_pending_result
    /\ UNCHANGED <<shared_vars, filter_strings, filter_thread_sender,
                   filter_thread_mutex, ui_pc, ui_arg, stops_in_row,
                   worker_vars, log_vars, page, query_vars, eval_vars, cred_vars>>


\* ------------------------------------------------------------ the workers
\* the closure given to rayon_core::spawn by generation g's start_filter;
\* cur_thread_mutex is mutex g and prev_thread_mutex is mutex g - 1

\* rx.try_recv() returns Ok(_) or Err(Disconnected)
CancelSeen(g) == chan[g].msg \/ filter_thread_sender # g

\* the generation is between its two guard acquisitions and their release
InBody(g) ==
    pc[g] \in {"init_finished", "init_count", "init_clear", "fetch", "poll",
               "check", "add", "append", "notify", "sleep", "backoff"}

\* `let _c = cur_thread_mutex.lock();`
LockCur(g) ==
    /\ pc[g] = "spawned"
    /\ holder[g] = None
    /\ holder' = [holder EXCEPT ![g] = g]
    /\ pc' = [pc EXCEPT ![g] = "lock_prev"]
    /\ UNCHANGED <<filtered_commits, filter_count, filter_finished, chan,
                   caller_vars, cur_index, v, fstrings, log_vars, page,
                   query_vars, eval_vars, cred_vars>>

\* `let _p = prev_thread_mutex.lock();`
LockPrev(g) ==
    /\ pc[g] = "lock_prev"
    /\ holder[g - 1] = None
    /\ holder' = [holder EXCEPT ![g - 1] = g]
    /\ pc' = [pc EXCEPT ![g] = "init_finished"]
    /\ UNCHANGED <<filtered_commits, filter_count, filter_finished, chan,
                   caller_vars, cur_index, v, fstrings, log_vars, page,
                   query_vars, eval_vars, cred_vars>>

\* `filter_finished.store(false)`
InitFinished(g) ==
    /\ pc[g] = "init_finished"
    /\ filter_finished' = FALSE
    /\ pc' = [pc EXCEPT ![g] = "init_count"]
    /\ UNCHANGED <<filtered_commits, filter_count, holder, chan,
                   caller_vars, cur_index, v, fstrings, log_vars, page,
                   query_vars, eval_vars, cred_vars>>

\* `filter_count.store(0)`
InitCount(g) ==
    /\ pc[g] = "init_count"
    /\ filter_count' = 0
    /\ pc' = [pc EXCEPT ![g] = "init_clear"]
    /\ UNCHANGED <<filtered_commits, filter_finished, holder, chan,
                   caller_vars, cur_index, v, fstrings, log_vars, page,
                   query_vars, eval_vars, cred_vars>>

\* `filtered_commits.lock().clear(); let mut cur_index = 0;`
InitClear(g) ==
    /\ pc[g] = "init_clear"
    /\ filtered_commits' = <<>>
    /\ cur_index' = [cur_index EXCEPT ![g] = 0]
    /\ pc' = [pc EXCEPT ![g] = "fetch"]
    /\ UNCHANGED <<filter_count, filter_finished, holder, chan,
                   caller_vars, v, fstrings, log_vars, page,
                   query_vars, eval_vars, cred_vars>>

\* get_slice and get_commits_info both return Ok
FetchOk(g) ==
    /\ pc[g] = "fetch"
    /\ cur_index[g] <= MaxIndex
    /\ v' = [v EXCEPT ![g] =
                get_commits_info(get_slice(cur_index[g], SLICE_SIZE))]
    /\ pc' = [pc EXCEPT ![g] = "poll"]
    /\ UNCHANGED <<shared_vars, caller_vars, cur_index, fstrings, log_vars,
                   page, query_vars, eval_vars, cred_vars>>

\* the failure arm as it would be if it moved on to the next slice
GetSliceErr_Advance(g) ==
    /\ pc[g] = "fetch"
    /\ cur_index[g] <= MaxIndex
    /\ cur_index' = [cur_index EXCEPT ![g] = cur_index[g] + SLICE_SIZE]
    /\ pc' = [pc EXCEPT ![g] = "backoff"]
    /\ UNCHANGED <<shared_vars, caller_vars, v, fstrings, log_vars,
                   page, query_vars, eval_vars, cred_vars>>

\* get_slice returns Err: sleep FILTER_SLEEP_DURATION_FAILED_LOCK
GetSliceErr(g) ==
    /\ pc[g] = "fetch"
    /\ cur_index[g] <= MaxIndex
    /\ pc' = [pc EXCEPT ![g] = "backoff"]
    /\ UNCHANGED <<shared_vars, caller_vars, cur_index, v, fstrings, log_vars,
                   page, query_vars, eval_vars, cred_vars>>

\* get_commits_info returns Err: sleep FILTER_SLEEP_DURATION_FAILED_LOCK
GetCommitsInfoErr(g) ==
    /\ pc[g] = "fetch"
    /\ cur_index[g] <= MaxIndex
    /\ pc' = [pc EXCEPT ![g] = "backoff"]
    /\ UNCHANGED <<shared_vars, caller_vars, cur_index, v, fstrings, log_vars,
                   page, query_vars, eval_vars, cred_vars>>

\* the sleep after a failure ends; the loop starts over
BackoffWake(g) ==
    /\ pc[g] = "backoff"
    /\ pc' = [pc EXCEPT ![g] = "fetch"]
    /\ UNCHANGED <<shared_vars, caller_vars, cur_index, v, fstrings, log_vars,
                   page, query_vars, eval_vars, cred_vars>>

\* the loop as it would be without the `break` of the cancel check
Poll_NoBreak(g) ==
    /\ pc[g] = "poll"
    /\ pc' = [pc EXCEPT ![g] = "check"]
    /\ UNCHANGED <<shared_vars, caller_vars, cur_index, v, fstrings, log_vars,
                   page, query_vars, eval_vars, cred_vars>>

\* `match rx.try_recv()`: break on a message or a dropped sender
Poll(g) ==
    /\ pc[g] = "poll"
    /\ IF CancelSeen(g)
       THEN /\ pc' = [pc EXCEPT ![g] = "exit_p"]
            /\ v' = [v EXCEPT ![g] = <<>>]
       ELSE /\ pc' = [pc EXCEPT ![g] = "check"]
            /\ v' = v
    /\ UNCHANGED <<shared_vars, caller_vars, cur_index, fstrings, log_vars,
                   page, query_vars, eval_vars, cred_vars>>

\* the loop as it would be with a `break` that forgets the store
Check_BreakOnly(g) ==
    /\ pc[g] = "check"
    /\ IF Len(v[g]) = 0 /\ ~log_pending
       THEN /\ pc' = [pc EXCEPT ![g] = "exit_p"]
            /\ v' = v
       ELSE /\ pc' = [pc EXCEPT ![g] = "add"]
            /\ v' = [v EXCEPT ![g] = filter(v[g], fstrings[g])]
    /\ UNCHANGED <<filtered_commits, filter_count, filter_finished, holder,
                   chan, caller_vars, cur_index, fstrings, log_vars, page,
                   query_vars, eval_vars, cred_vars>>

\* `if v.len() == 0 && !async_log.is_pending()`: store Finished and break;
\* otherwise `filtered = Self::filter(v, &filter_strings)`
Check(g) ==
    /\ pc[g] = "check"
    /\ IF Len(v[g]) = 0 /\ ~log_pending
       THEN /\ filter_finished' = TRUE
            /\ pc' = [pc EXCEPT ![g] = "exit_p"]
            /\ v' = v
       ELSE /\ filter_finished' = filter_finished
            /\ pc' = [pc EXCEPT ![g] = "add"]
            /\ v' = [v EXCEPT ![g] = filter(v[g], fstrings[g])]
    /\ UNCHANGED <<filtered_commits, filter_count, holder, chan,
                   caller_vars, cur_index, fstrings, log_vars, page,
                   query_vars, eval_vars, cred_vars>>

\* `filter_count.fetch_add(filtered.len())`
Add(g) ==
    /\ pc[g] = "add"
    /\ filter_count' = (filter_count + Len(v[g])) % WordMod
    /\ pc' = [pc EXCEPT ![g] = "append"]
    /\ UNCHANGED <<filtered_commits, filter_finished, holder, chan,
                   caller_vars, cur_index, v, fstrings, log_vars, page,
                   query_vars, eval_vars, cred_vars>>

\* the append as it would be if a batch were put in front
AppendBatch_InFront(g) ==
    /\ pc[g] = "append"
    /\ filtered_commits' =
           [i \in 1..Len(v[g]) |-> [info |-> v[g][i], gen |-> g]]
               \o filtered_commits
    /\ cur_index' = [cur_index EXCEPT ![g] = cur_index[g] + SLICE_SIZE]
    /\ v' = [v EXCEPT ![g] = <<>>]
    /\ pc' = [pc EXCEPT ![g] = "notify"]
    /\ UNCHANGED <<filter_count, filter_finished, holder, chan,
                   caller_vars, fstrings, log_vars, page,
                   query_vars, eval_vars, cred_vars>>

\* `fc.append(&mut filtered); drop(fc); cur_index += SLICE_SIZE;`
AppendBatch(g) ==
    /\ pc[g] = "append"
    /\ filtered_commits' = filtered_commits \o
           [i \in 1..Len(v[g]) |-> [info |-> v[g][i], gen |-> g]]
    /\ cur_index' = [cur_index EXCEPT ![g] = cur_index[g] + SLICE_SIZE]
    /\ v' = [v EXCEPT ![g] = <<>>]
    /\ pc' = [pc EXCEPT ![g] = "notify"]
    /\ UNCHANGED <<filter_count, filter_finished, holder, chan,
                   caller_vars, fstrings, log_vars, page,
                   query_vars, eval_vars, cred_vars>>

\* `async_app_sender.send(AsyncNotification::Log)`, then the sleep starts
Notify(g) ==
    /\ pc[g] = "notify"
    /\ pc' = [pc EXCEPT ![g] = "sleep"]
    /\ UNCHANGED <<shared_vars, caller_vars, cur_index, v, fstrings, log_vars,
                   page, query_vars, eval_vars, cred_vars>>

\* `thread::sleep(FILTER_SLEEP_DURATION)` ends; the loop starts over
SleepWake(g) ==
    /\ pc[g] = "sleep"
    /\ pc' = [pc EXCEPT ![g] = "fetch"]
    /\ UNCHANGED <<shared_vars, caller_vars, cur_index, v, fstrings, log_vars,
                   page, query_vars, eval_vars, cred_vars>>

\* the closure returns: _p is dropped (locals drop in reverse order)
ExitPrev(g) ==
    /\ pc[g] = "exit_p"
    /\ holder' = [holder EXCEPT ![g - 1] = None]
    /\ pc' = [pc EXCEPT ![g] = "exit_c"]
    /\ UNCHANGED <<filtered_commits, filter_count, filter_finished, chan,
                   caller_vars, cur_index, v, fstrings, log_vars, page,
                   query_vars, eval_vars, cred_vars>>

\* _c is dropped, then the captured rx; the worker is gone
ExitCur(g) ==
    /\ pc[g] = "exit_c"
    /\ holder' = [holder EXCEPT ![g] = None]
    /\ chan' = [chan EXCEPT ![g] = NoChan]
    /\ pc' = [pc EXCEPT ![g] = "done"]
    /\ cur_index' = [cur_index EXCEPT ![g] = 0]
    /\ fstrings' = [fstrings EXCEPT ![g] = <<>>]
    /\ UNCHANGED <<filtered_commits, filter_count, filter_finished,
                   caller_vars, v, log_vars, page, query_vars, eval_vars, cred_vars>>

Worker(g) ==
    \/ LockCur(g) \/ LockPrev(g)
    \/ InitFinished(g) \/ InitCount(g) \/ InitClear(g)
    \/ FetchOk(g) \/ GetSliceErr(g) \/ GetCommitsInfoErr(g) \/ BackoffWake(g)
    \/ Poll(g) \/ Check(g) \/ Add(g) \/ AppendBatch(g) \/ Notify(g) \/ SleepWake(g)
    \/ ExitPrev(g) \/ ExitCur(g)

\* the steps of the caller thread after a call has begun, and its other calls
CallerStep ==
    \/ StartFilterFinished \/ StartFilterClear \/ StartFilterCount
    \/ StartFilterSpawn
    \/ StopFilterSend \/ StopFilterFinished
    \/ IsPending

Next ==
    \/ \E q \in Queries : StartFilterSend(q)
    \/ CallerStep
    \/ \E g \in Gens : Worker(g)
    \/ LogPush
    \/ LogFinish

Spec == Init /\ [][Next]_vars

\* start_filter, once begun, runs to its return
StartFilterReturns ==
    \/ StartFilterFinished \/ StartFilterClear \/ StartFilterCount
    \/ StartFilterSpawn

\* the program when the caller only restarts the search with one query
NextFair ==
    \/ StartFilterSend(QueryAl)
    \/ StartFilterReturns
    \/ \E g \in Gens : Worker(g)
    \/ LogPush
    \/ LogFinish

\* scheduling: every spawned worker keeps running, a begun call returns,
\* get_slice and get_commits_info succeed again and again, and the log
\* source stops populating
Fairness ==
    /\ \A g \in Gens : WF_vars(Worker(g))
    /\ \A g \in Gens : SF_vars(FetchOk(g))
    /\ WF_vars(StartFilterReturns)
    /\ WF_vars(LogFinish)

SpecFair == Init /\ [][NextFair]_vars /\ Fairness

\* the same program, explored for MaxGenDeep start_filter calls
NextDeep ==
    \/ \E q \in Queries : StartFilterSendDeep(q)
    \/ CallerStep
    \/ \E g \in Gens : Worker(g)
    \/ LogPush
    \/ LogFinish

SpecDeep == Init /\ [][NextDeep]_vars


\* ------------------------------------------------------------- pagination
\* asyncgit::sync::limit_str: the text cut to at most `limit` characters
limit_str(s, limit) == SubSeq(s, 1, Min(limit, Len(s)))

\* outcome of a call that panicked
Panic == [ok |-> FALSE, items |-> <<>>]

\* AsyncCommitFilterer::get_filter_items on accumulator fc.  usize addition
\* panics on overflow when the build has overflow checks and wraps when it
\* has none; slicing fc[min..max] panics when min > max.
get_filter_items(fc, start, amount, message_length_limit, overflow_checks) ==
    LET len == Len(fc)
        min == Min(start, len)
        sum == min + amount
        max == Min(sum % WordMod, len)
    IN  IF overflow_checks /\ sum >= WordMod THEN Panic
        ELSE IF min > max THEN Panic
        ELSE [ok |-> TRUE,
              items |-> [i \in 1..(max - min) |->
                           [fc[min + i].info EXCEPT
                               !.message = limit_str(@, message_length_limit)]]]

\* the caller asks for a page; the call and its result are recorded
GetFilterItems(start, amount, message_length_limit, overflow_checks) ==
    /\ LET r == get_filter_items(filtered_commits, start, amount,
                                 message_length_limit, overflow_checks)
       IN  page' = [called |-> TRUE, start |-> start, amount |-> amount,
                    limit |-> message_length_limit,
                    ok |-> r.ok, items |-> r.items]
    /\ UNCHANGED <<shared_vars, caller_vars, worker_vars, log_vars,
                   query_vars, eval_vars, cred_vars>>

\* accumulators of up to MaxAcc matches of one generation
Accumulators ==
    UNION {[1..n -> {[info |-> LogFull[k], gen |-> 1] : k \in 1..Len(LogFull)}]
              : n \in 0..MaxAcc}

\* an engine holding any such accumulator, no call made yet
InitPage ==
    /\ filtered_commits \in Accumulators
    /\ filter_strings = <<>>
    /\ filter_count = Len(filtered_commits)
    /\ filter_finished = TRUE
    /\ is_pending_local = FALSE
    /\ filter_thread_sender = 1
    /\ filter_thread_mutex = 1
    /\ holder = [m \in Mutexes |-> None]
    /\ chan = [g \in Gens |-> NoChan]
    /\ pc = [g \in Gens |-> IF g = 1 THEN "done" ELSE "none"]
    /\ cur_index = [g \in Gens |-> 0]
    /\ v = [g \in Gens |-> <<>>]
    /\ fstrings = [g \in Gens |-> <<>>]
    /\ log_n = Len(LogFull)
    /\ log_pending = FALSE
    /\ ui_pc = "idle"
    /\ ui_arg = <<>>
    /\ stops_in_row = 0
    /\ page = NoPage
    /\ NoQuery
    /\ NoEval
    /\ NoCallbacks

NextPage ==
    \E start \in 0..(WordMod - 1) : \E amount \in 0..(WordMod - 1) :
        \E limit \in 0..MaxLimit : \E overflow_checks \in BOOLEAN :
            GetFilterItems(start, amount, limit, overflow_checks)

SpecPage == InitPage /\ [][NextPage]_vars

\* ---------------------------------------------------------------- strings
\* a character whose UTF-8 encoding takes two bytes (such as 'e' with an
\* acute accent); every other character of the model takes one
TwoByte == "U"

\* char::len_utf8
len_utf8(ch) == IF ch = TwoByte THEN 2 ELSE 1

\* str::len: the length in bytes
RECURSIVE ByteLen(_)
ByteLen(s) == IF s = <<>> THEN 0 ELSE len_utf8(Head(s)) + ByteLen(Tail(s))

\* Option<usize>::None
NoIndex == -1

\* position (1-based, in characters) of the first match of pat in s, 0 if none
FirstMatch(s, pat) ==
    LET hits == {i \in 1..(Len(s) - Len(pat) + 1) :
                    SubSeq(s, i, i + Len(pat) - 1) = pat}
    IN  IF hits = {} THEN 0
        ELSE CHOOSE i \in hits : \A j \in hits : i <= j

\* str::find: the byte index of the first match
find(s, pat) ==
    LET i == FirstMatch(s, pat)
    IN  IF i = 0 THEN NoIndex ELSE ByteLen(SubSeq(s, 1, i - 1))

\* str::split_at(mid): mid is a byte index; the call panics when mid is past
\* the end or not on a character boundary
split_at(s, mid) ==
    LET cuts == {k \in 0..Len(s) : ByteLen(SubSeq(s, 1, k)) = mid}
    IN  IF cuts = {} THEN [ok |-> FALSE, left |-> <<>>, right |-> <<>>]
        ELSE LET k == CHOOSE k \in cuts : TRUE
             IN  [ok |-> TRUE, left |-> SubSeq(s, 1, k),
                  right |-> SubSeq(s, k + 1, Len(s))]

\* a split that yields no piece for the empty string
RECURSIVE split_SkipEmpty(_, _)
split_SkipEmpty(s, pat) ==
    LET i == FirstMatch(s, pat)
    IN  IF s = <<>> THEN <<>>
        ELSE IF i = 0 THEN <<s>>
        ELSE <<SubSeq(s, 1, i - 1)>>
                 \o split_SkipEmpty(SubSeq(s, i + Len(pat), Len(s)), pat)

\* str::split(pat): the pieces between the matches of pat, left to right
RECURSIVE split(_, _)
split(s, pat) ==
    LET i == FirstMatch(s, pat)
    IN  IF i = 0 THEN <<s>>
        ELSE <<SubSeq(s, 1, i - 1)>>
                 \o split(SubSeq(s, i + Len(pat), Len(s)), pat)

\* [String]::join(sep)
RECURSIVE join(_, _)
join(pieces, sep) ==
    IF pieces = <<>> THEN <<>>
    ELSE IF Len(pieces) = 1 THEN pieces[1]
    ELSE pieces[1] \o sep \o join(Tail(pieces), sep)

\* the literals of the query syntax
AndAnd == <<"&", "&">>
OrOr == <<"|", "|">>
Marker == <<"&", "&", "(">>

\* ------------------------------------------------------ bracket elimination
\* the loop of Revlog::get_ending_bracket from character i (1-based) on
RECURSIVE ending_bracket_from(_, _, _)
ending_bracket_from(s, i, brack_count) ==
    IF i > Len(s) THEN NoIndex
    ELSE IF s[i] = "(" THEN ending_bracket_from(s, i + 1, brack_count + 1)
    ELSE IF s[i] = ")"
         THEN IF brack_count = 0 THEN i - 1
              ELSE ending_bracket_from(s, i + 1, brack_count - 1)
    ELSE ending_bracket_from(s, i + 1, brack_count)

\* Revlog::get_ending_bracket: the index of the closing bracket, counted in
\* characters (chars().enumerate())
get_ending_bracket(s) == ending_bracket_from(s, 1, 0)

\* outcome of a string function: a string, or a panic
Str(s) == [ok |-> TRUE, s |-> s]
StrPanic == [ok |-> FALSE, s |-> <<>>]

\* Revlog::remove_out_brackets
remove_out_brackets(s) ==
    LET first_bracket == find(s, Marker)
    IN  IF first_bracket = NoIndex THEN Str(s)
        ELSE
          LET cut == split_at(s, first_bracket + 3)
              first == cut.left
              rest_of_string == cut.right
              last_bracket == get_ending_bracket(rest_of_string)
          IN  IF last_bracket = NoIndex THEN Str(s)
              ELSE
                LET cut2 == split_at(rest_of_string, last_bracket)
                    second == cut2.left
                    third == cut2.right
                IN  IF ~cut2.ok THEN StrPanic
                    ELSE IF /\ first # <<>>
                            /\ first[Len(first)] = "("
                            /\ third # <<>>
                            /\ third[1] = ")"
                    THEN LET f == SubSeq(first, 1, Len(first) - 1)
                             t == Tail(third)
                             items == split(second, OrOr)
                         IN  Str(join([k \in 1..Len(items) |->
                                          f \o items[k] \o t], OrOr))
                    ELSE Str(s)

\* ---------------------------------------------------------- term parsing
\* char::is_whitespace on the alphabet of the modelled queries
is_whitespace(ch) == ch \in {" ", "\t"}

\* str::trim_start
RECURSIVE trim_start(_)
trim_start(s) ==
    IF s # <<>> /\ is_whitespace(Head(s)) THEN trim_start(Tail(s)) ELSE s

\* str::trim_end
RECURSIVE trim_end(_)
trim_end(s) ==
    IF s # <<>> /\ is_whitespace(s[Len(s)])
    THEN trim_end(SubSeq(s, 1, Len(s) - 1))
    ELSE s

\* a trim that leaves trailing whitespace
trim_StartOnly(s) == trim_start(s)

\* str::trim
trim(s) == trim_end(trim_start(s))

\* the modifier flags of FilterBy
NOT == "NOT"
CASE_SENSITIVE == "CASE_SENSITIVE"

\* FilterBy::everywhere
everywhere == {SHA, AUTHOR, MESSAGE}

\* FilterBy::all
all == everywhere \cup {NOT, CASE_SENSITIVE}

\* FilterBy::exclude_modifiers
exclude_modifiers(filter_by) == filter_by \ {NOT, CASE_SENSITIVE}

\* FilterBy::try_from(char), unwrap_or_else(|_| FilterBy::empty()) applied
try_from(ch) ==
    CASE ch = "s" -> {SHA}
      [] ch = "a" -> {AUTHOR}
      [] ch = "m" -> {MESSAGE}
      [] ch = "!" -> {NOT}
      [] ch = "c" -> {CASE_SENSITIVE}
      [] OTHER -> {}

\* a fold that stops at the first letter that is no flag
RECURSIVE fold_flags_StopAtUnknown(_, _)
fold_flags_StopAtUnknown(acc, chars) ==
    IF chars = <<>> \/ try_from(Head(chars)) = {} THEN acc
    ELSE fold_flags_StopAtUnknown(acc \cup try_from(Head(chars)), Tail(chars))

\* first.chars().skip(1).fold(FilterBy::empty(), |acc, ch| acc | ...)
RECURSIVE fold_flags(_, _)
fold_flags(acc, chars) ==
    IF chars = <<>> THEN acc
    ELSE fold_flags(acc \cup try_from(Head(chars)), Tail(chars))

\* parse_term without the default of lines 244-246
parse_term_NoFill(split_sub) ==
    IF split_sub = <<>> \/ split_sub[1] # ":"
    THEN <<split_sub, everywhere>>
    ELSE LET sp == FirstMatch(split_sub, <<" ">>)
             first == IF sp = 0 THEN split_sub
                      ELSE SubSeq(split_sub, 1, sp - 1)
             rest == IF sp = 0 THEN <<>>
                     ELSE SubSeq(split_sub, sp + 1, Len(split_sub))
         IN  <<trim_start(rest), fold_flags({}, Tail(first))>>

\* the (String, FilterBy) pair pushed for one trimmed piece split_sub
parse_term(split_sub) ==
    IF split_sub = <<>> \/ split_sub[1] # ":"
    THEN <<split_sub, everywhere>>
    ELSE LET sp == FirstMatch(split_sub, <<" ">>)
             first == IF sp = 0 THEN split_sub
                      ELSE SubSeq(split_sub, 1, sp - 1)
             rest == IF sp = 0 THEN <<>>
                     ELSE SubSeq(split_sub, sp + 1, Len(split_sub))
             to_filter_by == fold_flags({}, Tail(first))
         IN  <<trim_start(rest),
               IF exclude_modifiers(to_filter_by) = {}
               THEN to_filter_by \cup everywhere
               ELSE to_filter_by>>

\* get_what_to_filter_by splitting on `&&` first and on `||` inside
get_what_to_filter_by_AndFirst(filter_by_str) ==
    LET ands == split(filter_by_str, AndAnd)
    IN  [i \in 1..Len(ands) |->
            LET ors == split(ands[i], OrOr)
            IN  [j \in 1..Len(ors) |-> parse_term(trim(ors[j]))]]

\* Revlog::get_what_to_filter_by
get_what_to_filter_by(filter_by_str) ==
    LET ors == split(filter_by_str, OrOr)
    IN  [i \in 1..Len(ors) |->
            LET ands == split(ors[i], AndAnd)
            IN  [j \in 1..Len(ands) |-> parse_term(trim(ands[j]))]]

\* ------------------------------------------------------- Revlog::filter
\* one turn of the `while` of pre_process_string that finds a marker: the
\* pass panics, or makes no progress (break), or needs a string longer than
\* the memory holds (the process aborts), or leaves a new s
PreProcessPass ==
    /\ q_pc = "pre"
    /\ contains(q_s, Marker)
    /\ LET r == remove_out_brackets(q_s)
       IN  IF ~r.ok THEN q_pc' = "panic" /\ q_s' = q_s
           ELSE IF r.s = q_s THEN q_pc' = "trim" /\ q_s' = q_s
           ELSE IF ByteLen(r.s) > StrCap THEN q_pc' = "abort" /\ q_s' = q_s
           ELSE q_pc' = "pre" /\ q_s' = r.s
    /\ UNCHANGED <<q_shape, q_in, q_out, is_filtering>>
    /\ UNCHANGED <<shared_vars, caller_vars, worker_vars, log_vars, page,
                   eval_vars, cred_vars>>

\* the `while` condition finds no marker: pre_process_string returns s
PreProcessReturn ==
    /\ q_pc = "pre"
    /\ ~contains(q_s, Marker)
    /\ q_pc' = "trim"
    /\ UNCHANGED <<q_shape, q_in, q_s, q_out, is_filtering>>
    /\ UNCHANGED <<shared_vars, caller_vars, worker_vars, log_vars, page,
                   eval_vars, cred_vars>>

\* a whole call of stop_filter by the caller thread
StopFilterCall ==
    /\ SendCancel
    /\ filter_finished' = TRUE
    /\ stops_in_row' = Min(stops_in_row + 1, 2)
    /\ UNCHANGED <<filtered_commits, filter_count, holder, filter_strings,
                   filter_thread_sender, filter_thread_mutex, ui_pc, ui_arg,
                   worker_vars>>

\* a whole call of start_filter(q) by the caller thread: stop_filter, clear,
\* the new channel and mutex, the worker of the next generation spawned
StartFilterCall(q) ==
    /\ filter_finished' = TRUE
    /\ filtered_commits' = <<>>
    /\ filter_strings' = q
    /\ filter_count' = 0
    /\ LET g == filter_thread_mutex + 1
           sent == IF filter_thread_sender # None
                      /\ chan[filter_thread_sender].rx
                   THEN [chan EXCEPT ![filter_thread_sender].msg = TRUE]
                   ELSE chan
       IN  /\ chan' = [sent EXCEPT ![g] = [msg |-> FALSE, rx |-> TRUE]]
           /\ filter_thread_sender' = g
           /\ filter_thread_mutex' = g
           /\ pc' = [pc EXCEPT ![g] = "spawned"]
           /\ fstrings' = [fstrings EXCEPT ![g] = q]
    /\ is_pending_local' = TRUE
    /\ stops_in_row' = 0
    /\ UNCHANGED <<holder, ui_pc, ui_arg, cur_index, v>>

\* Revlog::filter as it would be without the branch for the empty string:
\* the empty string is compiled and a generation started for it
FilterEmpty_Compiled ==
    /\ q_pc = "trim"
    /\ q_in = <<>>
    /\ q_out' = get_what_to_filter_by(trim(q_s))
    /\ StartFilterCall(q_out')
    /\ is_filtering' = TRUE
    /\ q_pc' = "compiled"
    /\ UNCHANGED <<q_shape, q_in, q_s>>
    /\ UNCHANGED <<log_vars, page, eval_vars, cred_vars>>

\* filter_by is empty: stop_filter is called, nothing is compiled
FilterEmpty ==
    /\ q_pc = "trim"
    /\ q_in = <<>>
    /\ StopFilterCall
    /\ is_filtering' = FALSE
    /\ q_pc' = "stopped"
    /\ UNCHANGED <<q_shape, q_in, q_s, q_out>>
    /\ UNCHANGED <<log_vars, page, eval_vars, cred_vars>>

\* otherwise the trimmed string is compiled and handed to start_filter
FilterCompile ==
    /\ q_pc = "trim"
    /\ q_in # <<>>
    /\ q_out' = get_what_to_filter_by(trim(q_s))
    /\ StartFilterCall(q_out')
    /\ is_filtering' = TRUE
    /\ q_pc' = "compiled"
    /\ UNCHANGED <<q_shape, q_in, q_s>>
    /\ UNCHANGED <<log_vars, page, eval_vars, cred_vars>>

\* ------------------------------------------------------ the queries typed
\* the pieces a query string of the bracket family is put together from
Tokens == << <<"a">>, Marker, OrOr, <<")">>, <<"(">> >>

\* concatenation of a sequence of strings
RECURSIVE concat(_)
concat(pieces) ==
    IF pieces = <<>> THEN <<>> ELSE Head(pieces) \o concat(Tail(pieces))

\* query strings of up to max tokens: several groups, nested groups,
\* unbalanced brackets
TokenShapes(max) ==
    UNION {{[kind |-> "tokens", toks |-> t] : t \in [1..n -> 1..Len(Tokens)]}
              : n \in 0..max}

\* bracket-free texts
Texts == {<<>>, <<"a">>, <<"b">>, <<TwoByte>>}

\* the alternatives a1, .., an of one bracket group, n up to max
Alternatives(max) == UNION {[1..n -> Texts] : n \in 1..max}

\* query strings x&&(a1||..||an)suffix of bracket-free texts
GroupShapes(max) ==
    {[kind |-> "group", x |-> x, groups |-> <<a>>, suffix |-> t]
        : x \in Texts, a \in Alternatives(max), t \in Texts}

\* query strings x&&(a1||..||an)&&(b1||..||bm)suffix of bracket-free texts:
\* two bracket groups in one conjunction
TwoGroupShapes(max) ==
    {[kind |-> "group", x |-> x, groups |-> <<a, b>>, suffix |-> t]
        : x \in Texts, a \in Alternatives(max), b \in Alternatives(max),
          t \in Texts}

\* ------------------------------------------- the bracket-free queries typed
\* a piece of a query: whitespace, an optional `:flags ` prefix (flags, one
\* space, more whitespace), the text, whitespace
Piece(lead, flagged, flags, gap, text, trail) ==
    [lead |-> lead, flagged |-> flagged, flags |-> flags, gap |-> gap,
     text |-> text, trail |-> trail]

\* the letters typed after `:`; "q" is no flag
FlagLetters == {"s", "a", "m", "!", "c", "q"}

\* runs of whitespace
Pads == {<<>>, <<" ">>, <<"\t">>, <<" ", "\t">>}

\* one piece with up to max flag letters, no whitespace added
FlagShapes(max) ==
    UNION {{[kind |-> "terms",
             pieces |-> <<Piece(<<>>, TRUE, f, <<>>, t, <<>>)>>,
             seps |-> <<>>]
               : f \in [1..n -> FlagLetters], t \in {<<>>, <<"f">>}}
              : n \in 0..max}

\* the pieces the queries of LogicShapes combine
LogicPieces ==
    {Piece(<<>>, FALSE, <<>>, <<>>, <<>>, <<>>),
     Piece(<<>>, FALSE, <<>>, <<>>, <<"f">>, <<>>),
     Piece(<<>>, FALSE, <<>>, <<>>, <<"g">>, <<>>),
     Piece(<<>>, TRUE, <<"m">>, <<>>, <<"f">>, <<>>)}

\* up to max pieces joined by `&&` and `||`
LogicShapes(max) ==
    UNION {{[kind |-> "terms", pieces |-> p, seps |-> o]
               : p \in [1..n -> LogicPieces],
                 o \in [1..(n - 1) -> {"and", "or"}]}
              : n \in 1..max}

\* a piece with whitespace around it and after its flags, alone or joined
\* to a second piece with whitespace around it
SpaceShapes ==
    {[kind |-> "terms",
      pieces |-> <<Piece(l, fl, <<"m">>, g, <<"f", " ", " ", "o">>, t)>>
                     \o more.pieces,
      seps |-> more.seps]
        : l \in Pads, fl \in BOOLEAN, g \in Pads, t \in Pads,
          more \in {[pieces |-> <<>>, seps |-> <<>>]}
                   \cup {[pieces |-> <<Piece(l2, FALSE, <<>>, <<>>,
                                             <<"g">>, t2)>>,
                          seps |-> <<o>>]
                            : l2 \in Pads, t2 \in Pads, o \in {"and", "or"}}}

\* a query of whitespace only
BlankShapes ==
    {[kind |-> "terms",
      pieces |-> <<Piece(l, FALSE, <<>>, <<>>, <<>>, <<>>)>>,
      seps |-> <<>>] : l \in Pads \ {<<>>}}

\* the bracket-free queries of up to max_flags flag letters and max_pieces
\* pieces
TermShapes(max_flags, max_pieces) ==
    FlagShapes(max_flags) \cup LogicShapes(max_pieces) \cup SpaceShapes
        \cup BlankShapes

\* the pieces of a bracket-free query grouped as the syntax reads them: one
\* group per `||`-separated segment, holding the segment's `&&`-separated
\* pieces, all in the order typed
RECURSIVE Segments(_, _)
Segments(pieces, seps) ==
    IF Len(pieces) = 1 THEN << <<pieces[1]>> >>
    ELSE LET rest == Segments(Tail(pieces), Tail(seps))
         IN  IF seps[1] = "or" THEN << <<pieces[1]>> >> \o rest
             ELSE << <<pieces[1]>> \o rest[1] >> \o Tail(rest)

\* the characters typed for one piece
RenderPiece(p) ==
    p.lead
        \o (IF p.flagged THEN <<":">> \o p.flags \o <<" ">> \o p.gap
            ELSE <<>>)
        \o p.text \o p.trail

\* the query string typed for pieces joined by the given separators
RECURSIVE RenderTerms(_, _)
RenderTerms(pieces, seps) ==
    IF Len(pieces) = 1 THEN RenderPiece(pieces[1])
    ELSE RenderPiece(pieces[1])
             \o (IF seps[1] = "or" THEN OrOr ELSE AndAnd)
             \o RenderTerms(Tail(pieces), Tail(seps))

\* the string a shape stands for
Render(shape) ==
    CASE shape.kind = "tokens" ->
             concat([k \in 1..Len(shape.toks) |-> Tokens[shape.toks[k]]])
      [] shape.kind = "group" ->
             shape.x
                 \o concat([k \in 1..Len(shape.groups) |->
                               Marker \o join(shape.groups[k], OrOr)
                                   \o <<")">>])
                 \o shape.suffix
      [] shape.kind = "terms" -> RenderTerms(shape.pieces, shape.seps)

\* the queries with brackets of up to max_tokens tokens and max_alts
\* alternatives to a group
Shapes(max_tokens, max_alts) ==
    TokenShapes(max_tokens) \cup GroupShapes(max_alts)
        \cup TwoGroupShapes(max_alts)

\* the engine after a first query (QueryAl) was started on an empty log
\* and its generation has gone once round its loop
AfterFirstQuery ==
    /\ filtered_commits = <<>>
    /\ filter_strings = QueryAl
    /\ filter_count = 0
    /\ filter_finished = FALSE
    /\ is_pending_local = TRUE
    /\ filter_thread_sender = 1
    /\ filter_thread_mutex = 1
    /\ holder = [m \in Mutexes |-> IF m \in {0, 1} THEN 1 ELSE None]
    /\ chan = [g \in Gens |-> IF g = 1 THEN [msg |-> FALSE, rx |-> TRUE]
                                        ELSE NoChan]
    /\ pc = [g \in Gens |-> IF g = 1 THEN "sleep" ELSE "none"]
    /\ cur_index = [g \in Gens |-> IF g = 1 THEN SLICE_SIZE ELSE 0]
    /\ v = [g \in Gens |-> <<>>]
    /\ fstrings = [g \in Gens |-> IF g = 1 THEN QueryAl ELSE <<>>]
    /\ log_n = 0
    /\ log_pending = TRUE
    /\ ui_pc = "idle"
    /\ ui_arg = <<>>
    /\ stops_in_row = 0

\* Revlog::filter is entered, after a first query, with a query string
\* different from the last one, drawn from the given shapes
InitFilter(shapes) ==
    /\ AfterFirstQuery
    /\ is_filtering = TRUE
    /\ page = NoPage
    /\ NoEval
    /\ NoCallbacks
    /\ q_shape \in shapes
    /\ q_in = Render(q_shape)
    /\ q_s = q_in
    /\ q_pc = "pre"
    /\ q_out = <<>>

\* query strings with brackets
InitQuery == InitFilter(Shapes(MaxTokens, MaxAlts))

NextQuery ==
    \/ PreProcessPass
    \/ PreProcessReturn
    \/ FilterEmpty
    \/ FilterCompile

SpecQuery == InitQuery /\ [][NextQuery]_vars

\* bracket-free query strings: the loop of pre_process_string is not entered
InitCompile == InitFilter(TermShapes(MaxFlags, MaxPieces))

NextCompile ==
    \/ PreProcessReturn
    \/ FilterEmpty
    \/ FilterCompile

SpecCompile == InitCompile /\ [][NextCompile]_vars

\* ------------------------------------------- AsyncCommitFilterer::filter
\* the terms of the compiled queries evaluated
TermAl == << <<"a", "l">>, {AUTHOR} >>
TermFIX == << <<"F", "I", "X">>, {MESSAGE, CASE_SENSITIVE} >>
TermBo == << <<"B", "o">>, {SHA, MESSAGE} >>
TermB == << <<"b">>, {SHA, AUTHOR, MESSAGE} >>
TermNotFix == << <<"f", "i", "x">>, {MESSAGE, NOT} >>

EvalTerms == {TermAl, TermFIX, TermBo, TermB, TermNotFix}

\* compiled queries of up to max terms joined by `&&` and `||`, and the
\* empty compiled query
EvalQueries(max) ==
    {<<>>}
        \cup UNION {{Segments(t, o) : t \in [1..n -> EvalTerms],
                                      o \in [1..(n - 1) -> {"and", "or"}]}
                       : n \in 1..max}

\* batches of up to max commits, in any order
CommitVectors(max) ==
    UNION {[1..n -> {Commit1, Commit2, Commit3}] : n \in 0..max}

\* a batch and a compiled query, filter not yet called
InitEval ==
    /\ filtered_commits = <<>>
    /\ filter_strings = <<>>
    /\ filter_count = 0
    /\ filter_finished = FALSE
    /\ is_pending_local = FALSE
    /\ filter_thread_sender = None
    /\ filter_thread_mutex = 0
    /\ holder = [m \in Mutexes |-> None]
    /\ chan = [g \in Gens |-> NoChan]
    /\ pc = [g \in Gens |-> "none"]
    /\ cur_index = [g \in Gens |-> 0]
    /\ v = [g \in Gens |-> <<>>]
    /\ fstrings = [g \in Gens |-> <<>>]
    /\ log_n = 0
    /\ log_pending = TRUE
    /\ ui_pc = "idle"
    /\ ui_arg = <<>>
    /\ stops_in_row = 0
    /\ page = NoPage
    /\ NoQuery
    /\ e_commits \in CommitVectors(MaxCommits)
    /\ e_strings \in EvalQueries(MaxQueryTerms)
    /\ e_result = [called |-> FALSE, items |-> <<>>]
    /\ NoCallbacks

\* AsyncCommitFilterer::filter is called on the batch
Filter ==
    /\ ~e_result.called
    /\ e_result' = [called |-> TRUE, items |-> filter(e_commits, e_strings)]
    /\ UNCHANGED <<e_commits, e_strings>>
    /\ UNCHANGED <<shared_vars, caller_vars, worker_vars, log_vars, page,
                   query_vars, cred_vars>>

NextEval == Filter

SpecEval == InitEval /\ [][NextEval]_vars

\* ------------------------------------------------ the credentials closure
\* Option values are sequences: <<>> is None, <<x>> is Some(x)
\* git2::CredentialType, the flags libgit2 may offer
USER_PASS_PLAINTEXT == "USER_PASS_PLAINTEXT"
SSH_KEY == "SSH_KEY"
SSH_MEMORY == "SSH_MEMORY"
DEFAULT == "DEFAULT"
USERNAME == "USERNAME"

CredentialTypes == {USER_PASS_PLAINTEXT, SSH_KEY, SSH_MEMORY, DEFAULT, USERNAME}

\* the error messages of the closure
BadCredentials == <<"Bad credentials.">>
NoUsername == <<" Couldn't extract username from url.">>
NotFound == <<"Couldn't find credentials">>
\* the error of a git2 constructor that failed
CredError == <<"git2 error">>

\* Ok(cred) and Err(GitError::from_str(msg))
Ok(cred) == [ok |-> TRUE, cred |-> cred, err |-> <<>>]
Err(msg) == [ok |-> FALSE, cred |-> <<>>, err |-> msg]

\* the BasicAuthCredential values a caller may hand to push
BasicAuthCredentials ==
    {<<>>} \cup {<< [username |-> u, password |-> p] >> :
                     u \in {<<>>, <<"user">>}, p \in {<<>>, <<"pwd">>}}

\* the usernames libgit2 may have found in the url
UrlUsernames == {<<>>, <<"git">>}

\* the `match &basic_credential` of the closure; agent_ok is the outcome of
\* Cred::ssh_key_from_agent
select_credential(bc, username_from_url, allowed_types, agent_ok) ==
    IF SSH_KEY \in allowed_types
    THEN IF username_from_url # <<>>
         THEN IF agent_ok THEN Ok(<<SSH_KEY, username_from_url[1]>>)
                          ELSE Err(CredError)
         ELSE Err(NoUsername)
    ELSE IF /\ bc # <<>>
            /\ bc[1].username # <<>>
            /\ bc[1].password # <<>>
            /\ USER_PASS_PLAINTEXT \in allowed_types
    THEN Ok(<<USER_PASS_PLAINTEXT, bc[1].username[1], bc[1].password[1]>>)
    ELSE IF /\ bc # <<>>
            /\ bc[1].username # <<>>
            /\ USERNAME \in allowed_types
    THEN Ok(<<USERNAME, bc[1].username[1]>>)
    ELSE IF DEFAULT \in allowed_types
    THEN Ok(<<DEFAULT>>)
    ELSE Err(NotFound)

\* remote_callbacks(sender, basic_credential): a new callbacks object whose
\* credentials closure captures the credential and a fresh flag
RemoteCallbacks(bc) ==
    /\ cb_built < MaxCallbacks
    /\ basic_credential' = bc
    /\ first_call_to_credentials' = TRUE
    /\ cb_built' = cb_built + 1
    /\ cb_calls' = 0
    /\ cb_supplied' = 0
    /\ cb_last' = NoCall
    /\ UNCHANGED <<shared_vars, caller_vars, worker_vars, log_vars, page,
                   query_vars, eval_vars>>

\* the closure as it would be without the first-call flag
Credentials_EveryCall(username_from_url, allowed_types, agent_ok) ==
    /\ cb_built > 0
    /\ cb_calls < MaxCalls
    /\ LET r == select_credential(basic_credential, username_from_url,
                                  allowed_types, agent_ok)
       IN  /\ first_call_to_credentials' = FALSE
           /\ cb_calls' = cb_calls + 1
           /\ cb_supplied' = cb_supplied + (IF r.ok THEN 1 ELSE 0)
           /\ cb_last' = [called |-> TRUE,
                          username_from_url |-> username_from_url,
                          allowed_types |-> allowed_types, result |-> r]
    /\ UNCHANGED basic_credential
    /\ UNCHANGED cb_built
    /\ UNCHANGED <<shared_vars, caller_vars, worker_vars, log_vars, page,
                   query_vars, eval_vars>>

\* libgit2 invokes the credentials closure
Credentials(username_from_url, allowed_types, agent_ok) ==
    /\ cb_built > 0
    /\ cb_calls < MaxCalls
    /\ LET r == IF first_call_to_credentials
                THEN select_credential(basic_credential, username_from_url,
                                       allowed_types, agent_ok)
                ELSE Err(BadCredentials)
       IN  /\ first_call_to_credentials' = FALSE
           /\ cb_calls' = cb_calls + 1
           /\ cb_supplied' = cb_supplied + (IF r.ok THEN 1 ELSE 0)
           /\ cb_last' = [called |-> TRUE,
                          username_from_url |-> username_from_url,
                          allowed_types |-> allowed_types, result |-> r]
    /\ UNCHANGED basic_credential
    /\ UNCHANGED cb_built
    /\ UNCHANGED <<shared_vars, caller_vars, worker_vars, log_vars, page,
                   query_vars, eval_vars>>

NextCred ==
    \/ \E bc \in BasicAuthCredentials : RemoteCallbacks(bc)
    \/ \E u \in UrlUsernames : \E t \in SUBSET CredentialTypes :
           \E agent_ok \in BOOLEAN : Credentials(u, t, agent_ok)

SpecCred == Init /\ [][NextCred]_vars

\* ------------------------------------------------------------- properties
\* positions of a worker that has entered its body, now or earlier
Entered(g) == InBody(g) \/ pc[g] \in {"exit_p", "exit_c", "done"}

\* positions of a worker that has left its body
Exited(g) == pc[g] \in {"exit_p", "exit_c", "done"}

\* positions inside the `loop`
InLoop(g) ==
    pc[g] \in {"fetch", "poll", "check", "add", "append", "notify", "sleep",
               "backoff"}

\* the caller thread is inside start_filter
InStartFilter == ui_pc \in {"sf_finished", "sf_clear", "sf_count", "sf_spawn"}

\* a cancellation was sent to generation g, by stop_filter or a later
\* start_filter
Cancelled(g) == chan[g].msg \/ filter_thread_sender # g

\* C1: at most one generation is inside its body (past both guard
\* acquisitions, able to write status, counter and accumulator) at any
\* instant, for every order in which the spawned workers are scheduled.
C1_OneGenerationInBody ==
    \A g \in Gens : \A h \in Gens : (InBody(g) /\ InBody(h)) => g = h

\* C2: generations enter their bodies in the order of their start_filter
\* calls: when a generation has entered its body, every generation started
\* before it has left its own.
C2_BodiesInStartOrder ==
    \A g \in Gens : \A h \in Gens : (g < h /\ Entered(h)) => Exited(g)

\* C3: once start_filter(Q2) has returned and its generation has completed,
\* every record of the accumulator satisfies Q2 and was appended by that
\* generation, none by the generation of an earlier query.
C3_NoMatchesOfTwoQueries ==
    (/\ filter_thread_sender # None
     /\ ~InStartFilter
     /\ pc[filter_thread_sender] = "done")
    => \A i \in 1..Len(filtered_commits) :
          /\ filtered_commits[i].gen = filter_thread_sender
          /\ CommitMatches(filtered_commits[i].info, filter_strings)

\* C4: after stop_filter() has returned, status() is Finished and stays
\* Finished until the next start_filter call.
C4_FinishedAfterStop ==
    stops_in_row >= 1 => fetch = Finished

\* C5: stop_filter is idempotent and safe with nothing running: when the
\* second of two stop_filter calls in a row returns, or a stop_filter call on
\* an engine that never started, status is Finished and count is 0, and the
\* return of the second call changes no observable state.
C5_StopIdempotent ==
    [][(ui_pc = "stop_finished" /\ ui_pc' = "idle")
       => /\ (stops_in_row >= 1 \/ filter_thread_sender = None)
                => (fetch' = Finished /\ count' = 0)
          /\ stops_in_row >= 1
                => /\ fetch' = fetch
                   /\ count' = count
                   /\ is_pending_result' = is_pending_result
                   /\ filtered_commits' = filtered_commits]_vars

\* C6: is_pending() returns true only while a generation is actively
\* producing matches: whenever it would return true, some generation is
\* inside its body and has neither finished nor been cancelled; with no
\* generation running or waiting it returns false.
C6_PendingOnlyWhileProducing ==
    is_pending_result
    => \E g \in Gens : InBody(g) /\ ~Cancelled(g)

\* C7: at every instant at which the caller thread can observe the engine,
\* count() equals the length of the accumulator.
C7_CountIsAccumulatorLength ==
    ui_pc = "idle" => count = Len(filtered_commits)

\* C8: from the moment start_filter returns until the next start_filter
\* call, successive count() reads never decrease.
C8_CountNeverDecreases ==
    [][(filter_thread_sender # None /\ ~InStartFilter /\ ~InStartFilter')
       => count' >= count]_vars

\* C9: start_filter never blocks the caller on a worker: whatever the
\* workers are doing, the next step of a start_filter call in progress can
\* be taken, and a new call can begin.
C9_StartFilterNeverBlocks ==
    /\ InStartFilter
          => ENABLED (StartFilterFinished \/ StartFilterClear
                         \/ StartFilterCount \/ StartFilterSpawn)
    /\ (ui_pc = "idle" /\ filter_thread_mutex < MaxGen)
          => ENABLED (\E q \in Queries : StartFilterSend(q))

\* C9 witness: the last step of start_filter is about to run while the
\* previously started generation sleeps inside its loop, holding its guards
C9_Witness ==
    /\ ui_pc = "sf_spawn"
    /\ filter_thread_sender # None
    /\ pc[filter_thread_sender] \in {"sleep", "backoff"}
    /\ holder[filter_thread_mutex] = filter_thread_sender


\* the records the pagination clamp names: positions min(offset, L) ..
\* min(offset + limit, L) of the accumulator, messages cut for display
ClampedPage(fc, offset, limit, message_length_limit) ==
    LET L == Len(fc)
        lo == Min(offset, L)
        hi == Min(offset + limit, L)
    IN  [i \in 1..(hi - lo) |->
            [fc[lo + i].info EXCEPT
                !.message = limit_str(@, message_length_limit)]]

\* C10: pagination clamp: for an accumulator of length L and all offset and
\* limit, get_filter_items returns exactly the records at positions
\* min(offset, L) .. min(offset + limit, L), in accumulator order, and an
\* empty sequence (not an error) for offset > L.
C10_PaginationClamp ==
    page.called
    => /\ page.ok
       /\ page.items =
             ClampedPage(filtered_commits, page.start, page.amount, page.limit)

\* C11: get_filter_items never panics: for every start and amount of the
\* machine word range, also when min(start, len) + amount exceeds the
\* largest representable value, the slice bounds it computes satisfy
\* lower <= upper <= len, so every call returns a page.
C11_GetFilterItemsNeverPanics == page.called => page.ok


\* C12: bracket elimination terminates for every query string, also with
\* several bracket groups in one conjunction, nested groups and unbalanced
\* brackets: the loop of pre_process_string never keeps growing the string
\* until memory is exhausted, and when it has ended either no `&&(` marker
\* is left or one more pass would change nothing.
C12_PreProcessTerminates ==
    /\ q_pc # "abort"
    /\ q_pc \in {"trim", "stopped", "compiled"}
       => \/ ~contains(q_s, Marker)
          \/ remove_out_brackets(q_s) = Str(q_s)

\* the string bracket distribution names for x&&(a1||..||an)suffix:
\* x&&a1 suffix||..||x&&an suffix
Distributed(shape) ==
    LET alts == shape.groups[1]
    IN  join([k \in 1..Len(alts) |->
                 shape.x \o AndAnd \o alts[k] \o shape.suffix], OrOr)

\* C13: bracket distribution: for bracket-free texts x, a1..an and suffix,
\* pre-processing x&&(a1||..||an)suffix yields x&&a1 suffix||..||x&&an suffix
\* (the text after the matching bracket appended to every alternative), so
\* the query compiles to the same CompiledQuery as the distributed string.
C13_BracketDistribution ==
    q_shape.kind = "group" /\ Len(q_shape.groups) = 1
    => /\ q_pc # "panic"
       /\ q_pc \in {"trim", "compiled"} => q_s = Distributed(q_shape)
       /\ q_pc = "compiled"
          => q_out = get_what_to_filter_by(trim(Distributed(q_shape)))

\* a bracket-free query has been compiled
Compiled == q_shape.kind = "terms" /\ q_pc = "compiled"

\* C14: for a bracket-free string get_what_to_filter_by yields one
\* conjunction per `||`-separated segment, in order, each holding one term
\* per `&&`-separated piece of that segment, in order (the term of a piece
\* carries the piece's text).
C14_ConjunctionsAndTerms ==
    Compiled
    => LET segs == Segments(q_shape.pieces, q_shape.seps)
       IN  /\ Len(q_out) = Len(segs)
           /\ \A i \in 1..Len(segs) :
                 /\ Len(q_out[i]) = Len(segs[i])
                 /\ \A j \in 1..Len(segs[i]) :
                       q_out[i][j][1] = segs[i][j].text

\* `f && g || :m f` compiled: two conjunctions, the first of two terms
C14_Witness ==
    /\ Compiled
    /\ q_shape.seps = <<"and", "or">>
    /\ Len(q_out) = 2
    /\ Len(q_out[1]) = 2
    /\ q_out[1][1][1] = <<"f">>
    /\ q_out[1][2][1] = <<"g">>
    /\ q_out[2] = << << <<"f">>, {MESSAGE} >> >>

\* the modifiers among the flag letters typed
ModifiersGiven(flags) ==
    {NOT : k \in {k \in 1..Len(flags) : flags[k] = "!"}}
        \cup {CASE_SENSITIVE : k \in {k \in 1..Len(flags) : flags[k] = "c"}}

\* the flag letters typed select no field
NoFieldGiven(flags) == \A k \in 1..Len(flags) : flags[k] \notin {"s", "a", "m"}

\* C15: default-fill rule: for every compiled term, if the flags given after
\* `:` select no field (only NOT and/or CASE_SENSITIVE, or nothing
\* recognised) the term's mask is Everywhere plus exactly the modifiers
\* given; a piece not starting with `:` gets mask Everywhere; hence every
\* compiled term selects at least one field.
C15_DefaultFill ==
    Compiled
    => LET segs == Segments(q_shape.pieces, q_shape.seps)
       IN  \A i \in 1..Len(segs) : \A j \in 1..Len(segs[i]) :
               LET p == segs[i][j]
                   mask == q_out[i][j][2]
               IN  /\ ~p.flagged => mask = everywhere
                   /\ p.flagged /\ NoFieldGiven(p.flags)
                      => mask = everywhere \cup ModifiersGiven(p.flags)
                   /\ mask \cap everywhere # {}

\* `:!c f` compiled: no field letter given, the mask is All
C15_Witness ==
    /\ Compiled
    /\ Len(q_shape.pieces) = 1
    /\ q_shape.pieces[1].flagged
    /\ q_shape.pieces[1].flags = <<"!", "c">>
    /\ q_out = << << << <<"f">>, all >> >> >>

\* the union of the flags of the letters typed
FlagsGiven(flags) == UNION {try_from(flags[k]) : k \in 1..Len(flags)}

\* C16: the mask of a `:`-prefixed term is the union of the flags of the
\* recognised letters between `:` and the first space, whatever their order
\* and repetition; unrecognised letters contribute nothing and do not
\* disturb recognised ones (Everywhere is added when no field is selected).
C16_MaskIsUnionOfFlags ==
    Compiled
    => LET segs == Segments(q_shape.pieces, q_shape.seps)
       IN  \A i \in 1..Len(segs) : \A j \in 1..Len(segs[i]) :
               LET p == segs[i][j]
                   mask == q_out[i][j][2]
                   given == FlagsGiven(p.flags)
               IN  p.flagged
                   => mask = IF given \cap everywhere = {}
                             THEN given \cup everywhere
                             ELSE given

\* `:qmq f` compiled: the unrecognised letters around `m` change nothing
C16_Witness ==
    /\ Compiled
    /\ Len(q_shape.pieces) = 1
    /\ q_shape.pieces[1].flagged
    /\ q_shape.pieces[1].flags = <<"q", "m", "q">>
    /\ q_out = << << << <<"f">>, {MESSAGE} >> >> >>

\* a piece with the whitespace around it and after its flags removed
Unpadded(p) == [p EXCEPT !.lead = <<>>, !.gap = <<>>, !.trail = <<>>]

\* C17: whitespace normalisation: whitespace added around any `&&`- or
\* `||`-separated piece, and between a `:flags ` prefix and its text, does
\* not change the compiled query, while whitespace inside a term's text is
\* preserved verbatim and never splits the term.
C17_WhitespaceNormalised ==
    Compiled
    => LET segs == Segments(q_shape.pieces, q_shape.seps)
           bare == [k \in 1..Len(q_shape.pieces) |->
                       Unpadded(q_shape.pieces[k])]
       IN  /\ q_out = get_what_to_filter_by(RenderTerms(bare, q_shape.seps))
           /\ Len(q_out) = Len(segs)
           /\ \A i \in 1..Len(segs) :
                 /\ Len(q_out[i]) = Len(segs[i])
                 /\ \A j \in 1..Len(segs[i]) :
                       q_out[i][j][1] = segs[i][j].text

\* ` \t:m  \tf  o\t && g ` compiled: two terms, the inner spaces kept
C17_Witness ==
    /\ Compiled
    /\ Len(q_shape.pieces) = 2
    /\ q_shape.seps = <<"and">>
    /\ q_shape.pieces[1].flagged
    /\ q_shape.pieces[1].lead = <<" ", "\t">>
    /\ q_shape.pieces[1].gap = <<" ", "\t">>
    /\ q_shape.pieces[1].trail = <<"\t">>
    /\ q_shape.pieces[2].lead = <<" ">>
    /\ q_shape.pieces[2].trail = <<" ">>
    /\ q_out = << << << <<"f", " ", " ", "o">>, {MESSAGE} >>,
                     << <<"g">>, everywhere >> >> >>

\* the empty string was handed to get_what_to_filter_by
CompiledEmpty == q_pc = "compiled" /\ trim(q_s) = <<>>

\* C18: compiling the empty query string yields the empty CompiledQuery (no
\* conjunctions), and no compiled query ever contains an empty conjunction.
C18_EmptyQueryCompilesToEmpty ==
    q_pc = "compiled"
    => /\ trim(q_s) = <<>> => q_out = <<>>
       /\ \A i \in 1..Len(q_out) : q_out[i] # <<>>

\* C18, amended: compiling the empty query string yields one conjunction
\* of the single term ("", Everywhere); no compiled query is empty and none
\* contains an empty conjunction.
C18_EmptyQueryCompilesToEmptyTerm ==
    q_pc = "compiled"
    => /\ trim(q_s) = <<>> => q_out = << << << <<>>, everywhere >> >> >>
       /\ q_out # <<>>
       /\ \A i \in 1..Len(q_out) : q_out[i] # <<>>

\* a query of whitespace only compiled: the compiler was handed ""
C18_Witness == CompiledEmpty /\ q_in # <<>> /\ Len(q_out) = 1

\* a conjunction matches a commit when every term of it does
ConjunctionMatches(commit, conjunction) ==
    \A j \in 1..Len(conjunction) : TermMatches(commit, conjunction[j])

\* positions of the batch whose commit matches some conjunction of the query
KeptPositions(commits, query) ==
    {k \in 1..Len(commits) :
        \E i \in 1..Len(query) : ConjunctionMatches(commits[k], query[i])}

\* C19: predicate evaluation is disjunctive normal form: filter keeps a
\* commit if and only if at least one conjunction of the compiled query has
\* every one of its terms matching the commit, and the kept commits appear
\* in their input order.
C19_DisjunctiveNormalForm ==
    e_result.called
    => LET kept == KeptPositions(e_commits, e_strings)
           items == e_result.items
       IN  /\ Len(items) = Cardinality(kept)
           /\ \A k \in kept :
                 items[Cardinality({m \in kept : m <= k})] = e_commits[k]

\* the batch Commit3, Commit2 under `al && Bo || b`: Commit3 fails the
\* second term of the first conjunction, Commit2 is kept by the second
C19_Witness ==
    /\ e_result.called
    /\ e_commits = <<Commit3, Commit2>>
    /\ e_strings = << <<TermAl, TermBo>>, <<TermB>> >>
    /\ e_result.items = <<Commit2>>

\* the field comparison of a term: its text is a substring of a field its
\* mask selects, both sides folded to lower case unless the mask holds
\* CASE_SENSITIVE
FieldComparison(commit, term) ==
    LET text == term[1]
        mask == term[2]
        Fold(str) == IF CASE_SENSITIVE \in mask THEN str ELSE to_lowercase(str)
    IN  \/ SHA \in mask /\ contains(Fold(commit.id), Fold(text))
        \/ AUTHOR \in mask /\ contains(Fold(commit.author), Fold(text))
        \/ MESSAGE \in mask /\ contains(Fold(commit.message), Fold(text))

\* C20: a term's field comparison is true exactly when its text is a
\* substring of at least one of the fields (hash, author, message) its mask
\* selects, fields not selected never contributing; the comparison folds
\* both sides to lower case unless the term's CASE_SENSITIVE bit is set, in
\* which case it is exact-case.  (Observed on queries of one term without
\* NOT: filter keeps exactly the commits whose comparison is true.)
C20_FieldComparison ==
    /\ e_result.called
    /\ Len(e_strings) = 1
    /\ Len(e_strings[1]) = 1
    /\ NOT \notin e_strings[1][1][2]
    => \A k \in 1..Len(e_commits) :
          (\E n \in 1..Len(e_result.items) : e_result.items[n] = e_commits[k])
              <=> FieldComparison(e_commits[k], e_strings[1][1])

\* C21: a term whose mask has the NOT bit set matches a commit exactly
\* when the term without the NOT bit does not match it.  (Observed on
\* queries of one term with NOT: filter keeps exactly the commits the term
\* without NOT does not match.)
C21_NotInverts ==
    /\ e_result.called
    /\ Len(e_strings) = 1
    /\ Len(e_strings[1]) = 1
    /\ NOT \in e_strings[1][1][2]
    => \A k \in 1..Len(e_commits) :
          (\E n \in 1..Len(e_result.items) : e_result.items[n] = e_commits[k])
              <=> ~TermMatches(e_commits[k],
                               <<e_strings[1][1][1],
                                 e_strings[1][1][2] \ {NOT}>>)

\* C22: an empty query string means stop filtering: Revlog::filter("")
\* after a non-empty query calls stop_filter (the running generation is
\* signalled, the status is Finished, nothing is pending), sets
\* is_filtering to false and launches no generation; nothing is compiled
\* and no query is handed to the engine.
C22_EmptyQueryStops ==
    [][q_pc = "trim" /\ q_in = <<>>
       => /\ is_filtering' = FALSE
          /\ filter_finished' = TRUE
          /\ is_pending_local' = FALSE
          /\ chan[filter_thread_sender].rx
             => chan'[filter_thread_sender].msg
          /\ UNCHANGED <<filter_thread_sender, filter_thread_mutex, pc,
                         fstrings, filter_strings, filtered_commits,
                         filter_count, q_out>>]_vars

\* filter("") has returned: the generation of the first query is signalled,
\* no second generation exists
C22_Witness ==
    /\ q_pc = "stopped"
    /\ q_in = <<>>
    /\ ~is_filtering
    /\ chan[1].msg
    /\ pc[2] = "none"

\* C23: every write to the accumulator and to the match counter (clear,
\* reset to 0, append, add) is a step of a generation that holds both its
\* own and its predecessor's completion guard; no step of the caller thread
\* (start_filter, stop_filter, get_filter_items) changes them.
C23_WritesUnderBothGuards ==
    [][filtered_commits' # filtered_commits \/ filter_count' # filter_count
       => /\ ui_pc' = ui_pc
          /\ \E g \in Gens : /\ pc'[g] # pc[g]
                             /\ holder[g] = g
                             /\ holder[g - 1] = g]_vars

\* C24: a generation polls its cancellation signal in every loop
\* iteration, also in one whose get_slice or get_commits_info failed: a
\* signalled generation that wakes from the sleep of a failed iteration
\* leaves its loop (to release its guards) and never begins another fetch.
C24_CancelPolledAfterFailure ==
    [][\A g \in Gens :
          Cancelled(g) /\ pc[g] = "backoff" /\ pc'[g] # "backoff"
              => pc'[g] = "exit_p"]_vars

\* positions of an iteration up to and including its cancel check, with the
\* tail of the iteration before (after its append)
BeforeCheck == {"notify", "sleep", "fetch", "backoff", "poll"}

\* C25: after a cancellation was sent to a generation it appends at most
\* one further batch, that of the iteration already past its cancel check:
\* once it is at or before a cancel check it stays there until it exits,
\* and none of these steps, the observing one included, writes the
\* accumulator, the counter or the status.
C25_AtMostOneBatchAfterCancel ==
    [][\A g \in Gens :
          Cancelled(g) /\ pc[g] \in BeforeCheck /\ pc'[g] # pc[g]
              => /\ pc'[g] \in BeforeCheck \cup {"exit_p"}
                 /\ pc[g] = "poll" => pc'[g] = "exit_p"
                 /\ UNCHANGED <<filtered_commits, filter_count,
                                filter_finished>>]_vars

\* generation 1 was cancelled by the second start_filter, appended one
\* batch after that call's clear, observed the signal and left its loop
C25_Witness ==
    /\ filter_thread_sender = 2
    /\ ui_pc = "idle"
    /\ pc[1] = "exit_p"
    /\ \E n \in 1..Len(filtered_commits) : filtered_commits[n].gen = 1

\* generation g has just read an empty batch with the log source not
\* populating, stored Finished and left its loop
FinishedBy(g) ==
    /\ pc[g] = "exit_p"
    /\ v[g] = <<>>
    /\ ~log_pending
    /\ filter_finished

\* some generation has run its cursor past the explored range
OutOfRange == \E h \in Gens : cur_index[h] > MaxIndex

\* C26: normal termination is reached: a generation that is never signalled
\* and stays the latest one eventually (under fair scheduling, the log
\* source stopping and fetches succeeding) enters its body, reads an empty
\* batch with the source not populating, stores Finished and exits; and a
\* generation stores Finished only in such an iteration.
C26_NormalTermination ==
    /\ \A g \in Gens :
          ([]~chan[g].msg /\ <>[](filter_thread_sender = g))
              => \/ <>FinishedBy(g) /\ <>(pc[g] = "done")
                 \/ <>OutOfRange
    /\ [][\A g \in Gens :
             pc'[g] # pc[g] /\ filter_finished' /\ ~filter_finished
                 => pc[g] = "check" /\ v[g] = <<>> /\ ~log_pending]_vars

\* the second generation, never signalled, has stored Finished and is gone
C26_Witness ==
    /\ filter_thread_sender = 2
    /\ ~chan[2].msg
    /\ pc[2] = "done"
    /\ pc[1] = "done"
    /\ filter_finished
    /\ ~log_pending
    /\ ui_pc = "idle"
    /\ stops_in_row = 0

\* C27: transient failures are retried in place: the step of a failed
\* get_slice or get_commits_info and the wake-up from its sleep leave the
\* cursor, the accumulator, the counter and the status unchanged, go back
\* to the fetch of the same cursor position without passing the
\* notification, and change nothing of the caller's state.
C27_FailureRetriedInPlace ==
    [][\A g \in Gens :
          /\ pc[g] = "fetch" /\ pc'[g] = "backoff"
                => UNCHANGED <<cur_index, filtered_commits, filter_count,
                               filter_finished, caller_vars>>
          /\ pc[g] = "backoff" /\ pc'[g] # "backoff"
                => /\ pc'[g] = "fetch"
                   /\ UNCHANGED <<cur_index, filtered_commits, filter_count,
                                  filter_finished, caller_vars>>]_vars

\* a fetch of the second slice has failed after the first was appended
C27_Witness ==
    /\ pc[1] = "backoff"
    /\ cur_index[1] = SLICE_SIZE
    /\ Len(filtered_commits) > 0
    /\ filter_count = Len(filtered_commits)

\* position of a commit in the log source's order
LogPosition(info) == CHOOSE i \in 1..Len(LogFull) : LogFull[i] = info

\* C28: the records one generation has appended stand in the accumulator
\* in the log source's commit order, without duplicates: batch by batch in
\* cursor order and within a batch in the order the commits were returned.
C28_GenerationInLogOrder ==
    \A m \in 1..Len(filtered_commits) : \A n \in 1..Len(filtered_commits) :
        m < n /\ filtered_commits[m].gen = filtered_commits[n].gen
            => LogPosition(filtered_commits[m].info)
                   < LogPosition(filtered_commits[n].info)

\* one generation has appended records of two batches
C28_Witness ==
    \E m \in 1..Len(filtered_commits) : \E n \in 1..Len(filtered_commits) :
        /\ m < n
        /\ filtered_commits[m].gen = filtered_commits[n].gen
        /\ LogPosition(filtered_commits[m].info) <= SLICE_SIZE
        /\ LogPosition(filtered_commits[n].info) > SLICE_SIZE

\* C29: completeness of a finished search: when a generation that was not
\* signalled has stored Finished, the accumulator holds every commit of the
\* log source that matches its query, also when the log source was still
\* populating during the run and get_slice returned short or empty batches.
C29_FinishedIsComplete ==
    \A g \in Gens :
        pc[g] = "exit_p" /\ ~Cancelled(g)
            => \A i \in 1..log_n :
                  CommitMatches(LogFull[i], fstrings[g])
                      => \E n \in 1..Len(filtered_commits) :
                            filtered_commits[n].info = LogFull[i]

\* C30: no stale result is observable after a restart: at every instant
\* after a start_filter has returned, the accumulator read by
\* get_filter_items holds only records appended by that call's generation,
\* and count() is 0 as long as that generation has not entered its body,
\* also while the generation of the previous query is winding down.
C30_NoStaleAfterRestart ==
    \A g \in Gens :
        filter_thread_sender = g /\ ~InStartFilter
            => /\ \A n \in 1..Len(filtered_commits) :
                     filtered_commits[n].gen = g
               /\ ~Entered(g) => count = 0

\* the first invocation of the current closure has returned r
FirstCall == cb_calls = 1 /\ cb_last.called

\* the current closure was invoked again after its first invocation
LaterCall == cb_calls > 1 /\ cb_last.called

\* the closure supplies credentials at most once, and every invocation after
\* the first returns the error "Bad credentials."
AtMostOnce ==
    /\ cb_supplied <= 1
    /\ LaterCall => cb_last.result = Err(BadCredentials)

\* C31 as stated: the credentials closure supplies credentials at most once
\* per callbacks object; its first invocation returns a credential of an
\* allowed type or the not-found error, every later invocation the error
\* "Bad credentials.".
C31_FirstCallSelectsOrNotFound ==
    /\ AtMostOnce
    /\ FirstCall
          => \/ /\ cb_last.result.ok
                /\ cb_last.result.cred[1] \in cb_last.allowed_types
             \/ cb_last.result = Err(NotFound)

\* C31, amended: the credentials closure supplies credentials at most once
\* per callbacks object; its first invocation returns a credential of an
\* allowed type or an error other than "Bad credentials." (no credential
\* found, no username in the url for an SSH key, or the error of the git2
\* constructor), every later invocation the error "Bad credentials."
\* whatever the stored credential and the allowed types are.
C31_CredentialsAtMostOnce ==
    /\ AtMostOnce
    /\ FirstCall
          => \/ /\ cb_last.result.ok
                /\ cb_last.result.cred[1] \in cb_last.allowed_types
             \/ /\ ~cb_last.result.ok
                /\ cb_last.result.err \in {NotFound, NoUsername, CredError}

\* the closure has supplied the stored user and password on its first
\* invocation and was invoked again with the same types allowed
C31_Witness ==
    /\ LaterCall
    /\ cb_supplied = 1
    /\ basic_credential = << [username |-> <<"user">>, password |-> <<"pwd">>] >>
    /\ USER_PASS_PLAINTEXT \in cb_last.allowed_types
    /\ SSH_KEY \notin cb_last.allowed_types
    /\ cb_last.result = Err(BadCredentials)

====
